---- MODULE Spec2Model ----
(***************************************************************************)
(* Match-booking and card lifecycle engine of the WWE Universe Manager     *)
(* (src/app.py, class StorylineApp).  Strings the program splits, joins or *)
(* sorts are sequences of one-character strings; wrestler names and titles *)
(* are kept as atoms with their spelling given by Chars.                   *)
(***************************************************************************)
EXTENDS Integers, Sequences, FiniteSets, TLC

\* ------------------------------------------------------------------ bounds
\* Spec, the booking engine: participant counts 2..MaxTotal, MaxBooked matches
MaxTotal == 3
MaxBooked == 1
\* SpecCard, a card of several matches and their results
CardBooked == 2
CardHistory == 2
\* SpecTag, formats with teams of several wrestlers
TagTotal == 3
TagBooked == 1
TagHistory == 2
\* SpecHistory, titles, dates and styles
HistBooked == 2
HistHistory == 1
\* SpecPool, the brand filter and roster edits
PoolBooked == 1
PoolHistory == 1
\* SpecDirect, record_result on any text
DirectBooked == 1
DirectHistory == 1
\* SpecSlots, the slots a title's holders fill
SlotsTotal == 3
SlotsBooked == 1
\* SpecOrder, matches moved up and down the card
OrderBooked == 3
OrderHistory == 1
\* SpecRestart, the tables over a restart
RestartBooked == 1
RestartHistory == 1
RestartCards == 1
RestartResults == 1
\* SpecSnapshot, saved cards while the card and the roster change
SnapBooked == 2
SnapHistory == 1
SnapResults == 1
SnapCards == 2
\* SpecShown, details of cards saved after matches were moved
ShownBooked == 2
ShownHistory == 1
ShownCards == 2
\* SpecSaved, cards saved, loaded and deleted
SavedBooked == 2
SavedHistory == 1
SavedCards == 2
\* SpecDetails, the details of saved cards
DetailsBooked == 2
DetailsHistory == 1
DetailsCards == 2

\* --------------------------------------------------------- program constants
NumSlots == 8

\* ------------------------------------------------------------ the database
Names == {"Alice", "Bob", "\"Cy\""}
Titles == {"World"}
Dates == {"2024-01-01", "2024-01-02"}
Styles == {"Ladder"}

NoTitle == "None"
NoValue == "null"

Chars(n) ==
  CASE n = "Alice" -> <<"A", "l", "i", "c", "e">>
    [] n = "Bob" -> <<"B", "o", "b">>
    [] n = "\"Cy\"" -> <<"\"", "C", "y", "\"">>
    [] n = "Ladder" -> <<"L", "a", "d", "d", "e", "r">>
    [] n = "World" -> <<"W", "o", "r", "l", "d">>
    [] OTHER -> <<>>

GenderOf(n) ==
  CASE n = "Alice" -> "Female"
    [] n = "Bob" -> "Male"
    [] OTHER -> "Male"

BrandOf(n) ==
  CASE n = "Alice" -> "RAW"
    [] n = "Bob" -> "RAW"
    [] OTHER -> "SmackDown"

TitleBrand(t) == "RAW"
TitleGender(t) == "Male"

Brands == {"All", "RAW", "SmackDown"}

\* ------------------------------------------------------------ text helpers
Code(c) ==
  CASE c = " " -> 32 [] c = "\"" -> 34 [] c = "&" -> 38 [] c = "'" -> 39
    [] c = "," -> 44 [] c = "1" -> 49 [] c = "2" -> 50 [] c = "3" -> 51
    [] c = "4" -> 52
    [] c = "A" -> 65 [] c = "B" -> 66 [] c = "C" -> 67
    [] c = "a" -> 97 [] c = "b" -> 98 [] c = "c" -> 99 [] c = "e" -> 101
    [] c = "i" -> 105 [] c = "l" -> 108 [] c = "o" -> 111 [] c = "v" -> 118
    [] c = "y" -> 121
    [] OTHER -> 0

Lower(c) ==
  CASE c = "A" -> "a" [] c = "B" -> "b" [] c = "C" -> "c" [] OTHER -> c

RECURSIVE LStripQuotes(_)
LStripQuotes(s) ==
  IF s # <<>> /\ Head(s) \in {"\"", "'"} THEN LStripQuotes(Tail(s)) ELSE s

\* a key that is the spelling itself
SortKeyRaw(s) == s

\* _sort_key: name.lstrip('"\'').lower()
SortKey(s) == LET t == LStripQuotes(s) IN [i \in 1..Len(t) |-> Lower(t[i])]

RECURSIVE LexLess(_, _)
LexLess(a, b) ==
  IF b = <<>> THEN FALSE
  ELSE IF a = <<>> THEN TRUE
  ELSE IF Code(Head(a)) # Code(Head(b)) THEN Code(Head(a)) < Code(Head(b))
  ELSE LexLess(Tail(a), Tail(b))

RECURSIVE Join(_, _)
Join(parts, sep) ==
  IF parts = <<>> THEN <<>>
  ELSE IF Len(parts) = 1 THEN parts[1]
  ELSE parts[1] \o sep \o Join(Tail(parts), sep)

StartsWith(s, p) == Len(s) >= Len(p) /\ SubSeq(s, 1, Len(p)) = p

RECURSIVE SplitFrom(_, _, _)
SplitFrom(s, sep, cur) ==
  IF s = <<>> THEN <<cur>>
  ELSE IF StartsWith(s, sep)
       THEN <<cur>> \o SplitFrom(SubSeq(s, Len(sep) + 1, Len(s)), sep, <<>>)
       ELSE SplitFrom(Tail(s), sep, Append(cur, Head(s)))

Split(s, sep) == SplitFrom(s, sep, <<>>)

AmpSep == <<" ", "&", " ">>
CommaSep == <<",">>
VSep == <<" ", "v", " ">>

\* " & ".join(team)
Label(team) == Join([i \in 1..Len(team) |-> Chars(team[i])], AmpSep)

\* -------------------------------------------------------- sequence helpers
Elems(s) == {s[i] : i \in 1..Len(s)}

RECURSIVE RemoveFirst(_, _)
RemoveFirst(s, x) ==
  IF s = <<>> THEN <<>>
  ELSE IF Head(s) = x THEN Tail(s)
  ELSE <<Head(s)>> \o RemoveFirst(Tail(s), x)

RECURSIVE Flatten(_)
Flatten(ss) == IF ss = <<>> THEN <<>> ELSE Head(ss) \o Flatten(Tail(ss))

\* Python slice s[a:b], a and b 0-based, clamped to the list
Slice(s, a, b) ==
  LET lo == IF a > Len(s) THEN Len(s) ELSE a
      hi == IF b > Len(s) THEN Len(s) ELSE b
  IN IF hi <= lo THEN <<>> ELSE SubSeq(s, lo + 1, hi)

\* stable insertion by _sort_key: x goes after every element whose key is <= its key
RECURSIVE InsertByKey(_, _)
InsertByKey(s, x) ==
  IF s = <<>> THEN <<x>>
  ELSE IF LexLess(SortKey(Chars(x)), SortKey(Chars(Head(s))))
       THEN <<x>> \o s
       ELSE <<Head(s)>> \o InsertByKey(Tail(s), x)

RECURSIVE SortNames(_)
SortNames(s) ==
  IF s = <<>> THEN <<>>
  ELSE InsertByKey(SortNames(SubSeq(s, 1, Len(s) - 1)), s[Len(s)])

RECURSIVE RowsOf(_)
RowsOf(S) ==
  IF S = {} THEN <<>>
  ELSE LET x == CHOOSE y \in S : TRUE IN <<x>> \o RowsOf(S \ {x})

\* ------------------------------------------------------------ format table
Digit(n) ==
  CASE n = 1 -> "1" [] n = 2 -> "2" [] n = 3 -> "3" [] n = 4 -> "4" [] OTHER -> "?"

\* int(piece); a piece that is no digit has no value here
IntOf(piece) ==
  CASE piece = <<"1">> -> 1 [] piece = <<"2">> -> 2 [] piece = <<"3">> -> 3
    [] piece = <<"4">> -> 4 [] OTHER -> 0

\* the text of a format: team sizes joined by " v "
V(nums) == Join([i \in 1..Len(nums) |-> <<Digit(nums[i])>>], VSep)

\* opts.get(n, []) of update_mg_formats
opts(n) ==
  CASE n = 2 -> <<V(<<1, 1>>)>>
    [] n = 3 -> <<V(<<1, 1, 1>>), V(<<1, 2>>)>>
    [] n = 4 -> <<V(<<1, 1, 1, 1>>), V(<<2, 2>>), V(<<1, 3>>)>>
    [] n = 5 -> <<V(<<1, 1, 1, 1, 1>>), V(<<2, 3>>)>>
    [] n = 6 -> <<V(<<1, 1, 1, 1, 1, 1>>), V(<<3, 3>>), V(<<2, 2, 2>>)>>
    [] n = 7 -> <<V(<<1, 1, 1, 1, 1, 1, 1>>)>>
    [] n = 8 -> <<V(<<1, 1, 1, 1, 1, 1, 1, 1>>), V(<<2, 2, 2, 2>>), V(<<4, 4>>)>>
    [] OTHER -> <<>>

\* list(map(int, fmt.split(" v ")))
ParseFmt(fmt) ==
  LET ps == Split(fmt, VSep) IN [i \in 1..Len(ps) |-> IntOf(ps[i])]

RECURSIVE Sum(_)
Sum(ns) == IF ns = <<>> THEN 0 ELSE Head(ns) + Sum(Tail(ns))

\* ------------------------------------------------------------------- state
VARIABLES
  wrestlers,        \* table wrestlers: name -> [gender, brand]
  records,          \* table records: wrestler -> [wins, losses]
  current_holder,   \* championships.current_holder, per title
  won_on,           \* championships.won_on, per title
  match_history,    \* table match_history, in insertion order
  mg_pool,          \* self.mg_pool
  booked_matches,   \* self.booked_matches
  mg_brand, mg_num, mg_fmt, mg_style, mg_champ,   \* the generator's variables
  mg_vars,          \* the eight participant slots
  mg_cbs,           \* which slot comboboxes are gridded
  mg_gallery,       \* names shown as clickable thumbnails
  card_ctrl,        \* state of the controls of each match frame that was built
  card_date,        \* the date selected in the cards calendar
  resolved,         \* history variable: results recorded so far for each booked match
  cards,            \* table cards, in insertion order: [id, name, brand, card_date, card_data]
  card_ids,         \* self.card_ids: the ids behind the rows of the cards listbox
  next_card_id,     \* the id AUTOINCREMENT gives the next row of table cards
  saved,            \* history variable: the booked list at the time each card id was saved
  card_details,     \* the lines of the last "Card Details" window
  dialog            \* the last message box shown

vars == <<wrestlers, records, current_holder, won_on, match_history, mg_pool,
          booked_matches, mg_brand, mg_num, mg_fmt, mg_style, mg_champ,
          mg_vars, mg_cbs, mg_gallery, card_ctrl, card_date, resolved,
          cards, card_ids, next_card_id, saved, card_details, dialog>>

dbVars == <<wrestlers, records, current_holder, won_on, match_history>>
slotVars == <<mg_vars, mg_cbs>>
genVars == <<mg_brand, mg_num, mg_fmt, mg_style, mg_champ>>
cardVars == <<cards, card_ids, next_card_id, saved, card_details, dialog>>

Today == "2024-01-01"

Slots == 1..NumSlots
EmptySlots == [i \in Slots |-> ""]

\* ---------------------------------------------------------- pool rebuilding
\* SELECT name FROM wrestlers [WHERE brand=?], sorted by _sort_key
BrandNames(ws, b) ==
  SortNames(RowsOf({w \in DOMAIN ws : b = "All" \/ ws[w].brand = b}))

\* the titles offered by the championship combobox
MgTitles(b) == {NoTitle} \cup {t \in Titles : b = "All" \/ TitleBrand(t) = b}

get_wrestler_gender(ws, n) == IF n \in DOMAIN ws THEN ws[n].gender ELSE NoValue

get_wrestler_brand(ws, n) == IF n \in DOMAIN ws THEN ws[n].brand ELSE NoValue

\* the slots update_mg_formats grids for the first format of n
GridFor(n) ==
  LET fmts == opts(n)
      total == IF fmts = <<>> THEN 0 ELSE Sum(ParseFmt(fmts[1]))
  IN [i \in Slots |-> i <= total]

FirstFmt(n, old) == IF opts(n) = <<>> THEN old ELSE opts(n)[1]

\* load_match_gen_roster: the championship kept, and the pool narrowed by gender
ChampAfterLoad(b, c) == IF c \in MgTitles(b) THEN c ELSE NoTitle

load_match_gen_roster(ws, names, b, c) ==
  LET c2 == ChampAfterLoad(b, c)
  IN IF c2 # "" /\ c2 # NoTitle
     THEN SelectSeq(names, LAMBDA w : get_wrestler_gender(ws, w) = TitleGender(c2))
     ELSE names

reset_mg_pool(ws, b, c) == load_match_gen_roster(ws, BrandNames(ws, b), b, c)

\* refresh_match_gallery: one thumbnail per pool name; the lookup of a name that
\* is not in the roster raises and leaves the thumbnails built so far
RECURSIVE refresh_match_gallery(_, _)
refresh_match_gallery(ws, pool) ==
  IF pool = <<>> \/ Head(pool) \notin DOMAIN ws THEN <<>>
  ELSE <<Head(pool)>> \o refresh_match_gallery(ws, Tail(pool))

GalleryRaises(ws, pool) == \E i \in 1..Len(pool) : pool[i] \notin DOMAIN ws

\* ------------------------------------------------------------ the match card
Participants(m) == Flatten(m.teams)

\* refresh_card builds one frame per booked match, in order.  A frame's build
\* raises when a participant has no wrestlers row (fetchone() is None) or when
\* the match carries a title and no team holds one of the title's holders
\* (next() of an empty generator); the frames already built keep their controls.
FrameBuilds(ws, holder, m) ==
  /\ \A p \in Elems(Participants(m)) : p \in DOMAIN ws
  /\ m.championship # NoValue =>
       LET holders == Split(holder[m.championship], AmpSep)
       IN \E ti \in 1..Len(m.teams) : \E hi \in 1..Len(holders) :
            \E p \in Elems(m.teams[ti]) : Chars(p) = holders[hi]

RECURSIVE FramesBuilt(_, _, _)
FramesBuilt(ws, holder, bk) ==
  IF bk = <<>> \/ ~FrameBuilds(ws, holder, Head(bk)) THEN 0
  ELSE 1 + FramesBuilt(ws, holder, Tail(bk))

refresh_card(ws, holder, bk) ==
  [i \in 1..FramesBuilt(ws, holder, bk) |-> "normal"]

CardRaises(ws, holder, bk) == FramesBuilt(ws, holder, bk) < Len(bk)

\* the gallery after a handler that calls refresh_card and then
\* refresh_match_gallery: an exception in the first skips the second
GalleryAfterCard(ws, holder, bk, pool, old) ==
  IF CardRaises(ws, holder, bk) THEN old ELSE refresh_match_gallery(ws, pool)

\* the frames whose buttons and winner combobox can be used
Usable == {i \in 1..Len(card_ctrl) : card_ctrl[i] = "normal"}

\* variant: every absent name appended, whatever its brand
RECURSIVE ReturnToPoolAll(_, _, _, _)
ReturnToPoolAll(ws, b, pool, ps) ==
  IF ps = <<>> THEN pool
  ELSE ReturnToPoolAll(ws, b,
                       IF Head(ps) \notin Elems(pool) THEN Append(pool, Head(ps)) ELSE pool,
                       Tail(ps))

\* returning names to the pool: appended when absent and accepted by the brand filter
RECURSIVE ReturnToPool(_, _, _, _)
ReturnToPool(ws, b, pool, ps) ==
  IF ps = <<>> THEN pool
  ELSE LET p == Head(ps)
           add == /\ p \notin Elems(pool)
                  /\ (b = "All" \/ get_wrestler_brand(ws, p) = b)
       IN ReturnToPool(ws, b, IF add THEN Append(pool, p) ELSE pool, Tail(ps))

\* ------------------------------------------------------------ saved cards
\* rows.sort(key=lambda r: self._sort_key(r[1])): stable insertion by the name's key
RECURSIVE InsertRowByKey(_, _)
InsertRowByKey(rows, r) ==
  IF rows = <<>> THEN <<r>>
  ELSE IF LexLess(SortKey(r.name), SortKey(Head(rows).name))
       THEN <<r>> \o rows
       ELSE <<Head(rows)>> \o InsertRowByKey(Tail(rows), r)

RECURSIVE SortRows(_)
SortRows(rows) ==
  IF rows = <<>> THEN <<>>
  ELSE InsertRowByKey(SortRows(SubSeq(rows, 1, Len(rows) - 1)), rows[Len(rows)])

\* on_card_date_selected: the ids of the cards of date d, in listbox order
on_card_date_selected(cs, d) ==
  LET rows == SortRows(SelectSeq(cs, LAMBDA r : r.card_date = d))
  IN [i \in 1..Len(rows) |-> rows[i].id]

\* ---------------------------------------------------------------- Init
\* The state once the window is shown: the tables as a first session finds them
\* with the roster entered, the pool reset for brand "All", two slots gridded,
\* and the thumbnails drawn by the generator frame's first <Configure> event.
InitWith(ws) ==
  /\ wrestlers = ws
  /\ records = <<>>
  /\ current_holder = [t \in Titles |-> <<>>]
  /\ won_on = [t \in Titles |-> ""]
  /\ match_history = <<>>
  /\ mg_brand = "All"
  /\ mg_num = 2
  /\ mg_fmt = opts(2)[1]
  /\ mg_style = ""
  /\ mg_champ = NoTitle
  /\ mg_pool = reset_mg_pool(ws, "All", NoTitle)
  /\ booked_matches = <<>>
  /\ mg_vars = EmptySlots
  /\ mg_cbs = GridFor(2)
  /\ mg_gallery = refresh_match_gallery(ws, reset_mg_pool(ws, "All", NoTitle))
  /\ card_ctrl = <<>>
  /\ card_date = Today
  /\ resolved = <<>>
  /\ cards = <<>>
  /\ card_ids = <<>>
  /\ next_card_id = 1
  /\ saved = <<>>
  /\ card_details = <<>>
  /\ dialog = ""

\* the rows entered before the session that is modelled
Roster(S) == [n \in S |-> [gender |-> GenderOf(n), brand |-> BrandOf(n)]]

Init == InitWith(Roster(Names))

\* ------------------------------------------------- the generator's controls
\* mg_brand written: reset_mg_pool
SetBrandFilter(b) ==
  /\ mg_brand' = b
  /\ mg_champ' = ChampAfterLoad(b, mg_champ)
  /\ mg_pool' = reset_mg_pool(wrestlers, b, mg_champ)
  /\ mg_vars' = EmptySlots
  /\ mg_cbs' = GridFor(mg_num)
  /\ mg_fmt' = FirstFmt(mg_num, mg_fmt)
  /\ UNCHANGED <<cardVars, dbVars, booked_matches, mg_num, mg_style, mg_gallery, card_ctrl,
                 card_date, resolved>>

\* the holders' loop of on_mg_champ_selected: st = [pool, mvars, cbs]
RECURSIVE Prefill(_, _, _)
Prefill(st, holders, i) ==
  IF i > Len(holders) THEN st
  ELSE LET hit == {p \in Elems(st.pool) : Chars(p) = holders[i]}
       IN IF hit = {} THEN Prefill(st, holders, i + 1)
          ELSE LET h == CHOOSE p \in hit : TRUE
               IN Prefill([pool |-> RemoveFirst(st.pool, h),
                           mvars |-> [st.mvars EXCEPT ![i] = h],
                           cbs |-> [st.cbs EXCEPT ![i] = TRUE]],
                          holders, i + 1)

on_mg_champ_selected(ws, holder, b, n, c) ==
  LET st0 == [pool |-> reset_mg_pool(ws, b, c), mvars |-> EmptySlots, cbs |-> GridFor(n)]
  IN IF c # "" /\ c # NoTitle /\ holder[c] # <<>>
     THEN LET st1 == Prefill(st0, Split(holder[c], AmpSep), 1)
          IN [st1 EXCEPT !.pool = SortNames(st1.pool)]
     ELSE st0

\* mg_champ written: on_mg_champ_selected
SetChampionship(c) ==
  /\ c \in MgTitles(mg_brand)
  /\ LET st == on_mg_champ_selected(wrestlers, current_holder, mg_brand, mg_num, c)
     IN /\ mg_pool' = st.pool
        /\ mg_vars' = st.mvars
        /\ mg_cbs' = st.cbs
  /\ mg_champ' = c
  /\ mg_fmt' = FirstFmt(mg_num, mg_fmt)
  /\ UNCHANGED <<cardVars, dbVars, booked_matches, mg_brand, mg_num, mg_style, mg_gallery,
                 card_ctrl, card_date, resolved>>

\* mg_num written: update_mg_formats
SelectFormat(n) ==
  /\ mg_num' = n
  /\ mg_fmt' = FirstFmt(n, mg_fmt)
  /\ mg_cbs' = GridFor(n)
  /\ UNCHANGED <<cardVars, dbVars, mg_pool, booked_matches, mg_brand, mg_style, mg_champ,
                 mg_vars, mg_gallery, card_ctrl, card_date, resolved>>

\* a format picked in the format combobox, whose values are opts(mg_num)
SelectShape(f) ==
  /\ f \in Elems(opts(mg_num))
  /\ mg_fmt' = f
  /\ UNCHANGED <<cardVars, dbVars, mg_pool, booked_matches, mg_brand, mg_num, mg_style,
                 mg_champ, slotVars, mg_gallery, card_ctrl, card_date, resolved>>

\* a style picked in the style combobox
SelectStyle(s) ==
  /\ mg_style' = s
  /\ UNCHANGED <<cardVars, dbVars, mg_pool, booked_matches, mg_brand, mg_num, mg_fmt,
                 mg_champ, slotVars, mg_gallery, card_ctrl, card_date, resolved>>

\* the generator frame is resized: _resize_mg_gallery
Resize ==
  /\ mg_gallery' = refresh_match_gallery(wrestlers, mg_pool)
  /\ UNCHANGED <<cardVars, dbVars, mg_pool, booked_matches, genVars, slotVars, card_ctrl,
                 card_date, resolved>>

\* the first gridded slot that is empty, or 0
FirstFree(mvars, cbs) ==
  LET free == {i \in Slots : cbs[i] /\ mvars[i] = ""}
  IN IF free = {} THEN 0 ELSE CHOOSE i \in free : \A j \in free : i <= j

add_competitor_vars(mvars, cbs, name) ==
  IF FirstFree(mvars, cbs) = 0 THEN mvars
  ELSE [mvars EXCEPT ![FirstFree(mvars, cbs)] = name]

\* a thumbnail is clicked: add_competitor
AddCompetitor(name) ==
  /\ name \in Elems(mg_gallery)
  /\ IF name \notin Elems(mg_pool)
     THEN UNCHANGED <<mg_pool, mg_vars, mg_gallery>>
     ELSE /\ mg_pool' = RemoveFirst(mg_pool, name)
          /\ mg_vars' = add_competitor_vars(mg_vars, mg_cbs, name)
          /\ mg_gallery' = refresh_match_gallery(wrestlers, mg_pool')
  /\ UNCHANGED <<cardVars, dbVars, booked_matches, genVars, mg_cbs, card_ctrl, card_date,
                 resolved>>

\* ------------------------------------------------------------- booking
\* [v.get() for v in self.mg_vars if v.get()]
RECURSIVE Filled(_, _)
Filled(mvars, i) ==
  IF i > NumSlots THEN <<>>
  ELSE (IF mvars[i] = "" THEN <<>> ELSE <<mvars[i]>>) \o Filled(mvars, i + 1)

RECURSIVE RemoveAll(_, _)
RemoveAll(pool, ps) ==
  IF ps = <<>> THEN pool
  ELSE RemoveAll(IF Head(ps) \in Elems(pool) THEN RemoveFirst(pool, Head(ps)) ELSE pool,
                 Tail(ps))

\* teams.append(comps[idx:idx+n]); idx += n
RECURSIVE MakeTeams(_, _, _)
MakeTeams(comps, nums, idx) ==
  IF nums = <<>> THEN <<>>
  ELSE <<Slice(comps, idx, idx + Head(nums))>>
       \o MakeTeams(comps, Tail(nums), idx + Head(nums))

NewMatch(comps, fmt, style, champ) ==
  [teams |-> MakeTeams(comps, ParseFmt(fmt), 0),
   style |-> style,
   championship |-> IF champ # "" /\ champ # NoTitle THEN champ ELSE NoValue]

\* "Add to Card": add_to_card; maxBooked bounds the card's length
AddToCard(maxBooked) ==
  /\ Len(booked_matches) < maxBooked
  /\ LET comps == Filled(mg_vars, 1)
     IN /\ mg_pool' = SortNames(RemoveAll(mg_pool, comps))
        /\ booked_matches' =
             Append(booked_matches, NewMatch(comps, mg_fmt, mg_style, mg_champ))
  /\ mg_vars' = EmptySlots
  /\ card_ctrl' = refresh_card(wrestlers, current_holder, booked_matches')
  /\ mg_gallery' = GalleryAfterCard(wrestlers, current_holder, booked_matches',
                                    mg_pool', mg_gallery)
  /\ resolved' = Append(resolved, 0)
  /\ UNCHANGED <<cardVars, dbVars, genVars, mg_cbs, card_date>>

RECURSIVE AllParticipants(_)
AllParticipants(bk) ==
  IF bk = <<>> THEN <<>> ELSE Participants(Head(bk)) \o AllParticipants(Tail(bk))

\* "Clear Card": clear_card
ClearCard ==
  /\ mg_pool' = SortNames(ReturnToPool(wrestlers, mg_brand, mg_pool,
                                       AllParticipants(booked_matches)))
  /\ booked_matches' = <<>>
  /\ card_ctrl' = refresh_card(wrestlers, current_holder, booked_matches')
  /\ mg_gallery' = GalleryAfterCard(wrestlers, current_holder, booked_matches',
                                    mg_pool', mg_gallery)
  /\ resolved' = <<>>
  /\ UNCHANGED <<cardVars, dbVars, genVars, slotVars, card_date>>

\* list.pop(idx) and list.insert(new, m), idx and new 0-based
Pop(s, idx) == SubSeq(s, 1, idx) \o SubSeq(s, idx + 2, Len(s))
Insert(s, new, m) == SubSeq(s, 1, new) \o <<m>> \o SubSeq(s, new + 1, Len(s))

Max(a, b) == IF a > b THEN a ELSE b
Min(a, b) == IF a < b THEN a ELSE b

\* a move that goes round the ends of the list
move_match_wrap(bk, idx, delta) ==
  Insert(Pop(bk, idx), (idx + delta + Len(bk)) % Len(bk), bk[idx + 1])

move_match(bk, idx, delta) ==
  LET new == Max(0, Min(Len(bk) - 1, idx + delta))
  IN IF new # idx THEN Insert(Pop(bk, idx), new, bk[idx + 1]) ELSE bk

\* the up and down buttons of frame idx: move_match
MoveMatch(idx, delta) ==
  /\ idx + 1 \in Usable
  /\ booked_matches' = move_match(booked_matches, idx, delta)
  /\ resolved' = move_match(resolved, idx, delta)
  /\ card_ctrl' = IF Max(0, Min(Len(booked_matches) - 1, idx + delta)) # idx
                  THEN refresh_card(wrestlers, current_holder, booked_matches')
                  ELSE card_ctrl
  /\ UNCHANGED <<cardVars, dbVars, mg_pool, genVars, slotVars, mg_gallery, card_date>>

\* the Delete button of frame index: delete_match
DeleteMatch(index) ==
  /\ index + 1 \in Usable
  /\ booked_matches' = Pop(booked_matches, index)
  /\ resolved' = Pop(resolved, index)
  /\ mg_pool' = SortNames(ReturnToPool(wrestlers, mg_brand, mg_pool,
                                       Participants(booked_matches[index + 1])))
  /\ card_ctrl' = refresh_card(wrestlers, current_holder, booked_matches')
  /\ mg_gallery' = GalleryAfterCard(wrestlers, current_holder, booked_matches',
                                    mg_pool', mg_gallery)
  /\ UNCHANGED <<cardVars, dbVars, genVars, slotVars, card_date>>

\* ------------------------------------------------------------- results
\* next((t for t in teams if " & ".join(t) == winner_label), [])
RECURSIVE Winners(_, _)
Winners(teams, winner_label) ==
  IF teams = <<>> THEN <<>>
  ELSE IF Label(Head(teams)) = winner_label THEN Head(teams)
  ELSE Winners(Tail(teams), winner_label)

\* [p for team in teams for p in team if p not in winners]
Losers(teams, winners) ==
  SelectSeq(Flatten(teams), LAMBDA p : p \notin Elems(winners))

\* INSERT OR IGNORE INTO records(wrestler): a missing row starts at 0/0
EnsureRow(recs, w) ==
  IF w \in DOMAIN recs THEN recs
  ELSE [x \in DOMAIN recs \cup {w} |->
          IF x = w THEN [wins |-> 0, losses |-> 0] ELSE recs[x]]

AddWin(recs, w) ==
  LET r == EnsureRow(recs, w) IN [r EXCEPT ![w].wins = @ + 1]

AddLoss(recs, l) ==
  LET r == EnsureRow(recs, l) IN [r EXCEPT ![l].losses = @ + 1]

RECURSIVE AddWins(_, _)
AddWins(recs, ws) ==
  IF ws = <<>> THEN recs ELSE AddWins(AddWin(recs, Head(ws)), Tail(ws))

RECURSIVE AddLosses(_, _)
AddLosses(recs, ls) ==
  IF ls = <<>> THEN recs ELSE AddLosses(AddLoss(recs, Head(ls)), Tail(ls))

UpdateRecords(recs, winners, losers) == AddLosses(AddWins(recs, winners), losers)

\* UPDATE championships SET current_holder=?,won_on=? WHERE title=?
NewHolder(holder, champ, winners) ==
  IF champ # NoValue /\ winners # <<>>
  THEN [holder EXCEPT ![champ] = Chars(winners[1])]
  ELSE holder

\* variant: the title change dated with the day of the session
NewWonOnToday(won, champ, winners, date) ==
  IF champ # NoValue /\ winners # <<>> THEN [won EXCEPT ![champ] = Today] ELSE won

NewWonOn(won, champ, winners, date) ==
  IF champ # NoValue /\ winners # <<>> THEN [won EXCEPT ![champ] = date] ELSE won

\* variant: the row numbered with the 0-based index
HistoryRowZeroBased(date, index, winner_label, losers, m) ==
  [card_date |-> date,
   match_number |-> index,
   winner |-> winner_label,
   losers |-> Join([i \in 1..Len(losers) |-> Chars(losers[i])], CommaSep),
   style |-> m.style,
   championship |-> IF m.championship = NoValue THEN "" ELSE m.championship]

\* the row inserted into match_history
HistoryRow(date, index, winner_label, losers, m) ==
  [card_date |-> date,
   match_number |-> index + 1,
   winner |-> winner_label,
   losers |-> Join([i \in 1..Len(losers) |-> Chars(losers[i])], CommaSep),
   style |-> m.style,
   championship |-> IF m.championship = NoValue THEN "" ELSE m.championship]

\* the controls of frame index are disabled unless refresh_match_gallery raised
CtrlAfterResult(ctrl, index, raised) ==
  IF raised THEN ctrl ELSE [ctrl EXCEPT ![index + 1] = "disabled"]

\* record_result with the winner combobox of frame index holding winner_label
record_result(index, winner_label) ==
  LET m == booked_matches[index + 1]
      winners == Winners(m.teams, winner_label)
      losers == Losers(m.teams, winners)
  IN IF winner_label = <<>> THEN UNCHANGED vars
     ELSE /\ records' = UpdateRecords(records, winners, losers)
          /\ current_holder' = NewHolder(current_holder, m.championship, winners)
          /\ won_on' = NewWonOn(won_on, m.championship, winners, card_date)
          /\ match_history' =
               Append(match_history,
                      HistoryRow(card_date, index, winner_label, losers, m))
          /\ mg_pool' = SortNames(ReturnToPool(wrestlers, mg_brand, mg_pool, losers))
          /\ mg_gallery' = refresh_match_gallery(wrestlers, mg_pool')
          /\ card_ctrl' = CtrlAfterResult(card_ctrl, index,
                                          GalleryRaises(wrestlers, mg_pool'))
          /\ resolved' = [resolved EXCEPT ![index + 1] = @ + 1]
          /\ UNCHANGED <<cardVars, wrestlers, booked_matches, genVars, slotVars, card_date>>

\* the values offered by the winner combobox of a frame: tlabels
WinnerValues(m) == {Label(m.teams[i]) : i \in 1..Len(m.teams)}

\* a value picked in the winner combobox of frame index; maxHistory bounds the
\* rows of match_history
RecordResult(index, winner_label, maxHistory) ==
  /\ index + 1 \in Usable
  /\ winner_label \in WinnerValues(booked_matches[index + 1])
  /\ Len(match_history) < maxHistory
  /\ record_result(index, winner_label)

\* ---------------------------------------------------------- the other tabs
\* the names update_assign_list offers for title t, in list order
Eligible(ws, t) ==
  SortNames(RowsOf({w \in DOMAIN ws : /\ ws[w].gender = TitleGender(t)
                                      /\ (TitleBrand(t) = "All" \/ ws[w].brand = TitleBrand(t))}))

\* "Assign Champion" with the names at the selected positions: assign_roster_champ
AssignRosterChamp(t, sel) ==
  /\ sel # {}
  /\ sel \subseteq 1..Len(Eligible(wrestlers, t))
  /\ LET names == Eligible(wrestlers, t)
         sels == SelectSeq([i \in 1..Len(names) |-> IF i \in sel THEN names[i] ELSE ""],
                           LAMBDA x : x # "")
     IN current_holder' = [current_holder EXCEPT ![t] = Label(sels)]
  /\ won_on' = [won_on EXCEPT ![t] = Today]
  /\ UNCHANGED <<cardVars, wrestlers, records, match_history, mg_pool, booked_matches, genVars,
                 slotVars, mg_gallery, card_ctrl, card_date, resolved>>

\* a day picked in the cards calendar
SelectDate(d) ==
  /\ card_date' = d
  /\ card_ids' = on_card_date_selected(cards, d)
  /\ UNCHANGED <<cards, next_card_id, saved, card_details, dialog, dbVars, mg_pool, booked_matches, genVars, slotVars, mg_gallery,
                 card_ctrl, resolved>>

\* "Update" on the roster tab with wrestler old selected and the brand field
\* changed to b: update_wrestler
UpdateWrestler(old, b) ==
  /\ old \in DOMAIN wrestlers
  /\ wrestlers' = [wrestlers EXCEPT ![old].brand = b]
  /\ UNCHANGED <<cardVars, records, current_holder, won_on, match_history, mg_pool,
                 booked_matches, genVars, slotVars, mg_gallery, card_ctrl, card_date,
                 resolved>>

\* record_result run on frame index with any text in its winner combobox
RecordResultDirect(index, winner_label, maxHistory) ==
  /\ index + 1 \in Usable
  /\ Len(match_history) < maxHistory
  /\ record_result(index, winner_label)

\* ------------------------------------------------------------ card_data
\* json.dumps and json.loads on a list of matches, as a sequence of tokens:
\* brackets, braces, keys, null, and strings with their escapes
Tok(t) == [t |-> t, s |-> <<>>]
Key(k) == [t |-> "key", s |-> <<k>>]

RECURSIVE Escape(_)
Escape(cs) ==
  IF cs = <<>> THEN <<>>
  ELSE (IF Head(cs) \in {"\"", "\\"} THEN <<"\\", Head(cs)>> ELSE <<Head(cs)>>)
       \o Escape(Tail(cs))

RECURSIVE Unescape(_)
Unescape(cs) ==
  IF cs = <<>> THEN <<>>
  ELSE IF Head(cs) = "\\" /\ Len(cs) >= 2 THEN <<cs[2]>> \o Unescape(Tail(Tail(cs)))
  ELSE <<Head(cs)>> \o Unescape(Tail(cs))

\* the string whose text is cs
Texts == Names \cup Styles \cup Titles \cup {""}
TextOf(cs) == CHOOSE a \in Texts : Chars(a) = cs

DumpStr(a) == [t |-> "str", s |-> Escape(Chars(a))]
LoadStr(tok) == IF tok.t = "null" THEN NoValue ELSE TextOf(Unescape(tok.s))

DumpTeam(team) ==
  <<Tok("[")>> \o [i \in 1..Len(team) |-> DumpStr(team[i])] \o <<Tok("]")>>

DumpMatch(m) ==
  <<Tok("{"), Key("teams"), Tok("[")>>
  \o Flatten([i \in 1..Len(m.teams) |-> DumpTeam(m.teams[i])])
  \o <<Tok("]"), Key("style"), DumpStr(m.style), Key("championship"),
       IF m.championship = NoValue THEN Tok("null") ELSE DumpStr(m.championship),
       Tok("}")>>

Dumps(bk) ==
  <<Tok("[")>> \o Flatten([i \in 1..Len(bk) |-> DumpMatch(bk[i])]) \o <<Tok("]")>>

\* a list of strings, read from the token after its "["
RECURSIVE LoadStrs(_, _, _)
LoadStrs(toks, i, acc) ==
  IF toks[i].t = "]" THEN [val |-> acc, next |-> i + 1]
  ELSE LoadStrs(toks, i + 1, Append(acc, LoadStr(toks[i])))

\* a list of teams, read from the token after its "["
RECURSIVE LoadTeams(_, _, _)
LoadTeams(toks, i, acc) ==
  IF toks[i].t = "]" THEN [val |-> acc, next |-> i + 1]
  ELSE LET r == LoadStrs(toks, i + 1, <<>>)
       IN LoadTeams(toks, r.next, Append(acc, r.val))

\* one match object, read from its "{"
LoadMatch(toks, i) ==
  LET ts == LoadTeams(toks, i + 3, <<>>)
      j == ts.next
  IN [val |-> [teams |-> ts.val,
               style |-> LoadStr(toks[j + 1]),
               championship |-> LoadStr(toks[j + 3])],
      next |-> j + 5]

RECURSIVE LoadMatches(_, _, _)
LoadMatches(toks, i, acc) ==
  IF toks[i].t = "]" THEN acc
  ELSE LET r == LoadMatch(toks, i)
       IN LoadMatches(toks, r.next, Append(acc, r.val))

Loads(toks) == LoadMatches(toks, 2, <<>>)

\* ------------------------------------------------------------ the cards tab
\* str.strip() on blanks
RECURSIVE LStrip(_)
LStrip(cs) == IF cs # <<>> /\ Head(cs) = " " THEN LStrip(Tail(cs)) ELSE cs

RECURSIVE RStrip(_)
RStrip(cs) ==
  IF cs # <<>> /\ cs[Len(cs)] = " " THEN RStrip(SubSeq(cs, 1, Len(cs) - 1)) ELSE cs

Strip(cs) == RStrip(LStrip(cs))

\* what can be typed as a card name, and the brands finalize_card offers next to
\* the generator's brand
TypedCardNames == {<<"A">>, <<" ", "b">>, <<" ">>}
CardBrands == {"RAW", "SmackDown"}

\* the rows of id cid
RowsWithId(cs, cid) == SelectSeq(cs, LAMBDA r : r.id = cid)

\* an insert that takes the place of the cards saved before
InsertCardOver(cs, id, nm, bd, dt, bk) ==
  <<[id |-> id, name |-> nm, brand |-> bd, card_date |-> dt,
     card_data |-> Dumps(bk)]>>

\* an insert that stores an empty match list
InsertCardEmpty(cs, id, nm, bd, dt, bk) ==
  Append(cs, [id |-> id, name |-> nm, brand |-> bd, card_date |-> dt,
              card_data |-> Dumps(<<>>)])

\* INSERT INTO cards(name,brand,card_date,card_data)
InsertCard(cs, id, nm, bd, dt, bk) ==
  Append(cs, [id |-> id, name |-> nm, brand |-> bd, card_date |-> dt,
              card_data |-> Dumps(bk)])

\* "Save" in the finalize window with name text, brand bd and date dt:
\* finalize_card.save; maxCards bounds the ids given out
SaveCard(text, bd, dt, maxCards) ==
  /\ next_card_id <= maxCards
  /\ bd \in CardBrands \cup {mg_brand}
  /\ IF Strip(text) = <<>> \/ bd = ""
     THEN /\ dialog' = "Missing"
          /\ UNCHANGED <<cards, card_ids, next_card_id, saved>>
     ELSE /\ cards' = InsertCard(cards, next_card_id, Strip(text), bd, dt, booked_matches)
          /\ next_card_id' = next_card_id + 1
          /\ card_ids' = on_card_date_selected(cards', card_date)
          /\ saved' = Append(saved, booked_matches)
          /\ UNCHANGED dialog
  /\ UNCHANGED <<dbVars, mg_pool, booked_matches, genVars, slotVars, mg_gallery,
                 card_ctrl, card_date, resolved, card_details>>

\* a load that keeps what was booked ahead of the loaded matches
load_card_merge(bk, data) == bk \o Loads(data)

\* load_card_by_id: the list that replaces booked_matches
load_card_by_id(bk, data) == Loads(data)

\* "Load" with row sel of the cards listbox selected: load_card_from_list
LoadCard(sel) ==
  /\ sel \in 1..Len(card_ids)
  /\ RowsWithId(cards, card_ids[sel]) # <<>>
  /\ booked_matches' =
       load_card_by_id(booked_matches, RowsWithId(cards, card_ids[sel])[1].card_data)
  /\ resolved' = [i \in 1..Len(booked_matches') |-> 0]
  /\ card_ctrl' = refresh_card(wrestlers, current_holder, booked_matches')
  /\ dialog' = IF CardRaises(wrestlers, current_holder, booked_matches')
               THEN dialog ELSE "Loaded"
  /\ UNCHANGED <<dbVars, mg_pool, genVars, slotVars, mg_gallery, card_date,
                 cards, card_ids, next_card_id, saved, card_details>>

\* a delete that takes every card of the date of card cid
delete_card_date(cs, cid) ==
  SelectSeq(cs, LAMBDA r : \A q \in Elems(RowsWithId(cs, cid)) : r.card_date # q.card_date)

\* DELETE FROM cards WHERE id=?
delete_card(cs, cid) == SelectSeq(cs, LAMBDA r : r.id # cid)

\* "Delete" with row sel selected and the question answered yes:
\* delete_card_from_list
DeleteCard(sel) ==
  /\ sel \in 1..Len(card_ids)
  /\ cards' = delete_card(cards, card_ids[sel])
  /\ card_ids' = on_card_date_selected(cards', card_date)
  /\ UNCHANGED <<dbVars, mg_pool, booked_matches, genVars, slotVars, mg_gallery,
                 card_ctrl, card_date, resolved, next_card_id, saved, card_details,
                 dialog>>

\* the history rows of match number k of any date
HistoryOfAnyDate(hist, d, k) ==
  {i \in 1..Len(hist) : hist[i].match_number = k}

\* the positions of the history rows of date d and match number k
HistoryOf(hist, d, k) ==
  {i \in 1..Len(hist) : hist[i].card_date = d /\ hist[i].match_number = k}

TBD == <<"T", "B", "D">>

\* the winner and losers lines of match k of a card of date d, with the history
\* row at position h picked (0 for none)
DetailLine(hist, h) ==
  IF h = 0 THEN [winner |-> TBD, losers |-> <<>>, shows_losers |-> FALSE]
  ELSE [winner |-> hist[h].winner, losers |-> hist[h].losers,
        shows_losers |-> hist[h].losers # <<>>]

\* the rows show_card_details may take for the matches of a card: the first row
\* numbered k in the order the query returns, which leaves the order among rows
\* of one number open
DetailPicks(hist, d, n) ==
  {pick \in [1..n -> 0..Len(hist)] :
     \A k \in 1..n :
       IF HistoryOf(hist, d, k) = {} THEN pick[k] = 0
       ELSE pick[k] \in HistoryOf(hist, d, k)}

show_card_details(row, hist, pick) ==
  [k \in 1..Len(Loads(row.card_data)) |-> DetailLine(hist, pick[k])]

\* a double click on row sel of the cards listbox: show_card_details
ShowCardDetails(sel) ==
  /\ sel \in 1..Len(card_ids)
  /\ RowsWithId(cards, card_ids[sel]) # <<>>
  /\ LET row == RowsWithId(cards, card_ids[sel])[1]
     IN \E pick \in DetailPicks(match_history, row.card_date,
                                 Len(Loads(row.card_data))) :
          card_details' = show_card_details(row, match_history, pick)
  /\ UNCHANGED <<dbVars, mg_pool, booked_matches, genVars, slotVars, mg_gallery,
                 card_ctrl, card_date, resolved, cards, card_ids, next_card_id, saved,
                 dialog>>

\* ------------------------------------------------------------ roster tab
\* what can be typed in the name entry of the roster form
TypedNames ==
  {Chars(n) : n \in Names} \cup {<<" ">> \o Chars("Alice") \o <<" ">>, <<" ">>}

\* the name a text spells
NameOf(cs) == CHOOSE n \in Names \cup {""} : Chars(n) = cs

Genders == {"Male", "Female"}
Alignments == {"", "Face"}

\* an insert that takes the place of the row of the same name
add_wrestler_replace(ws, n, g, b) ==
  [x \in DOMAIN ws \cup {n} |->
     IF x = n THEN [gender |-> g, brand |-> b] ELSE ws[x]]

\* INSERT INTO wrestlers under UNIQUE(name): the table after add_wrestler
add_wrestler(ws, n, g, b) ==
  IF n \in DOMAIN ws THEN ws
  ELSE [x \in DOMAIN ws \cup {n} |->
          IF x = n THEN [gender |-> g, brand |-> b] ELSE ws[x]]

\* "Add" on the roster tab with text in the name entry: add_wrestler
AddWrestler(text, g, a, b) ==
  /\ IF Strip(text) = <<>> \/ g = "" \/ a = "" \/ b = ""
     THEN /\ dialog' = "Missing Info"
          /\ UNCHANGED wrestlers
     ELSE /\ wrestlers' = add_wrestler(wrestlers, NameOf(Strip(text)), g, b)
          /\ dialog' = IF NameOf(Strip(text)) \in DOMAIN wrestlers
                       THEN "Error" ELSE dialog
  /\ UNCHANGED <<records, current_holder, won_on, match_history, mg_pool,
                 booked_matches, genVars, slotVars, mg_gallery, card_ctrl, card_date,
                 resolved, cards, card_ids, next_card_id, saved, card_details>>

\* ------------------------------------------------- settings tab and start-up
\* "Reset Match History" answered yes: reset_history
ResetHistory ==
  /\ match_history' = <<>>
  /\ UNCHANGED <<wrestlers, records, current_holder, won_on, mg_pool, booked_matches,
                 genVars, slotVars, mg_gallery, card_ctrl, card_date, resolved,
                 cardVars>>

\* DROP TABLE IF EXISTS match_history, then CREATE TABLE IF NOT EXISTS
create_tables(hist) == <<>>

\* the program is closed and started again: the tables of data/roster.db are
\* what create_tables leaves of them, the widgets and lists are built anew
Restart ==
  /\ match_history' = create_tables(match_history)
  /\ UNCHANGED <<wrestlers, records, current_holder, won_on, cards, next_card_id,
                 saved>>
  /\ mg_brand' = "All"
  /\ mg_num' = 2
  /\ mg_fmt' = opts(2)[1]
  /\ mg_style' = ""
  /\ mg_champ' = NoTitle
  /\ mg_pool' = reset_mg_pool(wrestlers, "All", NoTitle)
  /\ booked_matches' = <<>>
  /\ mg_vars' = EmptySlots
  /\ mg_cbs' = GridFor(2)
  /\ mg_gallery' = refresh_match_gallery(wrestlers, mg_pool')
  /\ card_ctrl' = <<>>
  /\ card_date' = Today
  /\ resolved' = <<>>
  /\ card_ids' = on_card_date_selected(cards, Today)
  /\ card_details' = <<>>
  /\ dialog' = ""

\* "Delete" on the roster tab with wrestler n selected: delete_wrestler
DeleteWrestler(n) ==
  /\ n \in DOMAIN wrestlers
  /\ wrestlers' = [w \in DOMAIN wrestlers \ {n} |-> wrestlers[w]]
  /\ UNCHANGED <<records, current_holder, won_on, match_history, mg_pool,
                 booked_matches, genVars, slotVars, mg_gallery, card_ctrl, card_date,
                 resolved, cardVars>>

\* ------------------------------------------------------- specifications
Indexes == 0..(Len(booked_matches) - 1)

\* the booking engine on the whole roster
Next ==
  \/ \E b \in Brands : SetBrandFilter(b)
  \/ \E c \in Titles \cup {NoTitle} : SetChampionship(c)
  \/ \E n \in 2..MaxTotal : SelectFormat(n)
  \/ \E n \in 2..MaxTotal : \E i \in 1..Len(opts(n)) : SelectShape(opts(n)[i])
  \/ Resize
  \/ \E name \in Names : AddCompetitor(name)
  \/ AddToCard(MaxBooked)
  \/ ClearCard
  \/ \E idx \in Indexes : \E delta \in {-1, 1} : MoveMatch(idx, delta)
  \/ \E idx \in Indexes : DeleteMatch(idx)

Spec == Init /\ [][Next]_vars

\* a card of several singles matches, reordered, deleted and resolved
InitCard == InitWith(Roster({"Alice", "Bob"}))

NextCard ==
  \/ \E name \in Names : AddCompetitor(name)
  \/ AddToCard(CardBooked)
  \/ ClearCard
  \/ \E idx \in Indexes : \E delta \in {-1, 1} : MoveMatch(idx, delta)
  \/ \E idx \in Indexes : DeleteMatch(idx)
  \/ \E idx \in Indexes : \E w \in WinnerValues(booked_matches[idx + 1]) :
       RecordResult(idx, w, CardHistory)

SpecCard == InitCard /\ [][NextCard]_vars

\* matches of up to TagTotal participants and their results
NextTag ==
  \/ \E n \in 2..TagTotal : SelectFormat(n)
  \/ \E n \in 2..TagTotal : \E i \in 1..Len(opts(n)) : SelectShape(opts(n)[i])
  \/ \E name \in Names : AddCompetitor(name)
  \/ AddToCard(TagBooked)
  \/ ClearCard
  \/ \E idx \in Indexes : \E w \in WinnerValues(booked_matches[idx + 1]) :
       RecordResult(idx, w, TagHistory)

SpecTag == InitCard /\ [][NextTag]_vars

\* title matches, styles and card dates
InitHistory == InitWith(Roster({"Bob", "\"Cy\""}))

NextHistory ==
  \/ \E c \in Titles \cup {NoTitle} : SetChampionship(c)
  \/ \E s \in Styles : SelectStyle(s)
  \/ \E d \in Dates : SelectDate(d)
  \/ \E t \in Titles : \E sel \in SUBSET (1..Cardinality(Names)) : AssignRosterChamp(t, sel)
  \/ \E name \in Names : AddCompetitor(name)
  \/ AddToCard(HistBooked)
  \/ \E idx \in Indexes : \E w \in WinnerValues(booked_matches[idx + 1]) :
       RecordResult(idx, w, HistHistory)

SpecHistory == InitHistory /\ [][NextHistory]_vars

\* the brand filter, roster edits and the names that come back to the pool
NextPool ==
  \/ \E b \in Brands : SetBrandFilter(b)
  \/ \E n \in Names : \E b \in Brands \ {"All"} : UpdateWrestler(n, b)
  \/ \E name \in Names : AddCompetitor(name)
  \/ AddToCard(PoolBooked)
  \/ ClearCard
  \/ \E idx \in Indexes : DeleteMatch(idx)
  \/ \E idx \in Indexes : \E w \in WinnerValues(booked_matches[idx + 1]) :
       RecordResult(idx, w, PoolHistory)

SpecPool == InitHistory /\ [][NextPool]_vars

\* wrestlers added to a roster of one while the pool is filtered and used
InitRoster == InitWith(Roster({"Alice"}))

NextRoster ==
  \/ \E text \in TypedNames : \E g \in Genders : \E a \in Alignments :
       \E b \in Brands \ {"All"} : AddWrestler(text, g, a, b)
  \/ \E b \in Brands : SetBrandFilter(b)
  \/ \E name \in Names : AddCompetitor(name)

SpecRoster == InitRoster /\ [][NextRoster]_vars

\* a roster whose wrestlers are all eligible for the title, which one, two or
\* three of them come to hold
InitSlots == InitWith([n \in Names |-> [gender |-> "Male", brand |-> "RAW"]])

NextSlots ==
  \/ \E t \in Titles : \E sel \in {{1}, 1..Cardinality(Names)} :
       AssignRosterChamp(t, sel)
  \/ \E b \in Brands \ {"SmackDown"} : SetBrandFilter(b)
  \/ \E c \in Titles \cup {NoTitle} : SetChampionship(c)
  \/ \E n \in 2..SlotsTotal : SelectFormat(n)
  \/ \E name \in Names : AddCompetitor(name)
  \/ AddToCard(SlotsBooked)

SpecSlots == InitSlots /\ [][NextSlots]_vars

\* a card of up to three matches reordered while results are recorded
NextOrder ==
  \/ \E name \in Names : AddCompetitor(name)
  \/ AddToCard(OrderBooked)
  \/ \E idx \in Indexes : \E delta \in {-1, 1} : MoveMatch(idx, delta)
  \/ \E idx \in Indexes : \E w \in WinnerValues(booked_matches[idx + 1]) :
       RecordResult(idx, w, OrderHistory)

SpecOrder == Init /\ [][NextOrder]_vars

\* no wrestler has reached n results in records
ResultsBelow(n) ==
  \A w \in DOMAIN records : records[w].wins + records[w].losses < n

\* results, saved cards and roster rows over resets and restarts
NextRestart ==
  \/ \E name \in Names : AddCompetitor(name)
  \/ AddToCard(RestartBooked)
  \/ \E idx \in Indexes : \E w \in WinnerValues(booked_matches[idx + 1]) :
       ResultsBelow(RestartResults) /\ RecordResult(idx, w, RestartHistory)
  \/ \E text \in {<<"A">>} : SaveCard(text, "RAW", card_date, RestartCards)
  \/ \E sel \in 1..RestartCards : LoadCard(sel)
  \/ \E sel \in 1..RestartCards : DeleteCard(sel)
  \/ \E n \in Names : DeleteWrestler(n)
  \/ ResetHistory
  \/ Restart

SpecRestart == InitHistory /\ [][NextRestart]_vars

\* saved cards of a roster of one, while matches are added, moved, removed and
\* decided and the wrestler is deleted
InitSnapshot == InitWith(Roster({"\"Cy\""}))

NextSnapshot ==
  \/ \E name \in Names : AddCompetitor(name)
  \/ AddToCard(SnapBooked)
  \/ \E idx \in Indexes : \E delta \in {-1, 1} : MoveMatch(idx, delta)
  \/ \E idx \in Indexes : DeleteMatch(idx)
  \/ ClearCard
  \/ \E idx \in Indexes : \E w \in WinnerValues(booked_matches[idx + 1]) :
       ResultsBelow(SnapResults) /\ RecordResult(idx, w, SnapHistory)
  \/ \E text \in {<<"A">>} : SaveCard(text, "RAW", card_date, SnapCards)
  \/ \E sel \in 1..SnapCards : LoadCard(sel)
  \/ \E sel \in 1..SnapCards : DeleteCard(sel)
  \/ \E n \in Names : DeleteWrestler(n)

SpecSnapshot == InitSnapshot /\ [][NextSnapshot]_vars

\* matches decided and moved, cards of one date saved and their details shown
NextShown ==
  \/ \E name \in Names : AddCompetitor(name)
  \/ AddToCard(ShownBooked)
  \/ \E idx \in Indexes : \E delta \in {-1, 1} : MoveMatch(idx, delta)
  \/ \E idx \in Indexes : \E w \in WinnerValues(booked_matches[idx + 1]) :
       RecordResult(idx, w, ShownHistory)
  \/ \E text \in {<<"A">>} : SaveCard(text, "RAW", card_date, ShownCards)
  \/ \E sel \in 1..ShownCards : ShowCardDetails(sel)

SpecShown == Init /\ [][NextShown]_vars

\* record_result taken as a function of the text it reads
DirectLabels == {Label(<<a>>) : a \in Names} \cup {Label(<<a, b>>) : a, b \in Names}

NextDirect ==
  \/ \E name \in Names : AddCompetitor(name)
  \/ AddToCard(DirectBooked)
  \/ \E idx \in Indexes : DeleteMatch(idx)
  \/ \E idx \in Indexes : \E w \in DirectLabels : RecordResultDirect(idx, w, DirectHistory)

SpecDirect == InitCard /\ [][NextDirect]_vars

\* cards saved, loaded and deleted while matches are booked and decided
NextSaved ==
  \/ \E name \in Names : AddCompetitor(name)
  \/ AddToCard(SavedBooked)
  \/ \E idx \in Indexes : \E w \in WinnerValues(booked_matches[idx + 1]) :
       RecordResult(idx, w, SavedHistory)
  \/ \E d \in Dates : SelectDate(d)
  \/ \E text \in TypedCardNames : \E dt \in Dates :
       SaveCard(text, "RAW", dt, SavedCards)
  \/ \E sel \in 1..SavedCards : LoadCard(sel)
  \/ \E sel \in 1..SavedCards : DeleteCard(sel)

SpecSaved == InitHistory /\ [][NextSaved]_vars

\* results recorded, cards saved on any date, and their details shown
NextDetails ==
  \/ \E name \in Names : AddCompetitor(name)
  \/ AddToCard(DetailsBooked)
  \/ \E idx \in Indexes : \E w \in WinnerValues(booked_matches[idx + 1]) :
       RecordResult(idx, w, DetailsHistory)
  \/ \E d \in Dates : SelectDate(d)
  \/ \E text \in TypedCardNames : \E dt \in Dates :
       SaveCard(text, "RAW", dt, DetailsCards)
  \/ \E sel \in 1..DetailsCards : ShowCardDetails(sel)

SpecDetails == InitCard /\ [][NextDetails]_vars

\* ================================================================ claims
\* the brand filter accepts wrestler p
Accepts(p) == mg_brand = "All" \/ get_wrestler_brand(wrestlers, p) = mg_brand

\* how many times name p occurs in sequence ps
Count(ps, p) == Cardinality({i \in 1..Len(ps) : ps[i] = p})

\* C1: once a result has been recorded for a booked match, no later operation
\* records a result for that same match again, whatever happens in between.
C1_ResultRecordedOnce == \A i \in 1..Len(resolved) : resolved[i] <= 1

\* C2: "Add to Card" with an exposed slot left empty appends no match and leaves
\* the card, the pool and the slot selections as they were.
C2_EmptySlotRejected ==
  [][(AddToCard(MaxBooked) /\ \E i \in Slots : mg_cbs[i] /\ mg_vars[i] = "")
       => UNCHANGED <<booked_matches, mg_pool, mg_vars>>]_vars

\* C3: no name in the pool is a participant of a booked match whose result has
\* not been recorded.
C3_BookedOutOfPool ==
  \A i \in 1..Len(booked_matches) :
    resolved[i] = 0 =>
      \A p \in Elems(Participants(booked_matches[i])) : p \notin Elems(mg_pool)

\* C4: a name occurs at most once among the teams of a booked match, and in at
\* most one booked match whose result has not been recorded.
C4_NoDoubleBooking ==
  /\ \A i \in 1..Len(booked_matches) :
       \A p \in Elems(Participants(booked_matches[i])) :
         Count(Participants(booked_matches[i]), p) = 1
  /\ \A i, j \in 1..Len(booked_matches) :
       (i # j /\ resolved[i] = 0 /\ resolved[j] = 0) =>
         Elems(Participants(booked_matches[i]))
           \cap Elems(Participants(booked_matches[j])) = {}

\* the first team of match m whose rendered label is w
WinningTeam(m, w) ==
  LET I == {i \in 1..Len(m.teams) : Label(m.teams[i]) = w}
  IN m.teams[CHOOSE i \in I : \A j \in I : i <= j]

\* the participants of m that are not members of the team labelled w, in team order
LosingParticipants(m, w) ==
  SelectSeq(Participants(m), LAMBDA p : p \notin Elems(WinningTeam(m, w)))

WinsOf(recs, n) == IF n \in DOMAIN recs THEN recs[n].wins ELSE 0
LossesOf(recs, n) == IF n \in DOMAIN recs THEN recs[n].losses ELSE 0

\* C5: a result whose label matches a team adds exactly 1 to the wins of every
\* member of that team and exactly 1 to the losses of every other participant,
\* creating missing rows; no other counter changes.
C5_CountersByOne ==
  [][\A idx \in Indexes : \A w \in WinnerValues(booked_matches[idx + 1]) :
       (w # <<>> /\ RecordResult(idx, w, TagHistory)) =>
         LET m == booked_matches[idx + 1]
             team == Elems(WinningTeam(m, w))
             others == Elems(Participants(m)) \ team
         IN \A n \in Names :
              /\ WinsOf(records', n) = WinsOf(records, n) + (IF n \in team THEN 1 ELSE 0)
              /\ LossesOf(records', n) =
                   LossesOf(records, n) + (IF n \in others THEN 1 ELSE 0)
              /\ n \in team \cup others => n \in DOMAIN records']_vars

C9_RemovedBackInPool ==
  [][/\ \A idx \in Indexes :
          DeleteMatch(idx) =>
            /\ booked_matches' = Pop(booked_matches, idx)
            /\ \A p \in Elems(Participants(booked_matches[idx + 1])) :
                 p \in Elems(mg_pool') <=> Accepts(p)
     /\ ClearCard =>
          /\ booked_matches' = <<>>
          /\ \A p \in Elems(AllParticipants(booked_matches)) :
               p \in Elems(mg_pool') <=> Accepts(p)]_vars

\* C10: after a result, every losing participant the brand filter accepts is in
\* the pool, and none the filter rejects has been added to it.
C10_LosersBackInPool ==
  [][\A idx \in Indexes : \A w \in WinnerValues(booked_matches[idx + 1]) :
       (w # <<>> /\ RecordResult(idx, w, PoolHistory)) =>
         \A p \in Elems(LosingParticipants(booked_matches[idx + 1], w)) :
           /\ Accepts(p) => p \in Elems(mg_pool')
           /\ ~Accepts(p) => (p \in Elems(mg_pool') => p \in Elems(mg_pool))]_vars

\* a loser of brand SmackDown kept out of the pool by the filter RAW
C10_Witness ==
  /\ Len(match_history) = 1
  /\ match_history[1].losers = Chars("\"Cy\"")
  /\ mg_brand = "RAW"
  /\ get_wrestler_brand(wrestlers, "\"Cy\"") = "SmackDown"
  /\ "\"Cy\"" \notin Elems(mg_pool)
  /\ "Bob" \notin Elems(mg_pool)

\* C11: loading a saved card, whatever was done since it was saved, makes the
\* booked list exactly the ordered list of matches (teams, style, championship)
\* that was booked when the card was saved; nothing of the previous list is kept.
C11_LoadRestoresSaved ==
  [][\A sel \in 1..SavedCards :
       LoadCard(sel) => booked_matches' = saved[card_ids[sel]]]_vars

\* a card of one match with a quoted name, saved before a second match was
\* booked and saved, and loaded over the list of two
C11_Witness ==
  /\ dialog = "Loaded"
  /\ Len(saved) = 2
  /\ Len(saved[1]) = 1
  /\ Len(saved[2]) = 2
  /\ booked_matches = saved[1]
  /\ \E t \in 1..Len(booked_matches[1].teams) :
       "\"Cy\"" \in Elems(booked_matches[1].teams[t])

\* C12: deleting a saved card removes exactly the row of that id from the cards
\* table; the other cards, the match history, the win/loss records and the
\* booked list are unchanged.
C12_DeleteRemovesOneCard ==
  [][\A sel \in 1..SavedCards :
       DeleteCard(sel) =>
         /\ Len(cards') = Len(cards) - 1
         /\ \A i \in 1..Len(cards') : cards'[i].id # card_ids[sel]
         /\ \A i \in 1..Len(cards) :
              cards[i].id # card_ids[sel] => cards[i] \in Elems(cards')
         /\ UNCHANGED <<match_history, records, booked_matches>>]_vars

\* the first of two saved cards of one date is gone, the second is listed, and
\* a decided match stands in the history and on the card
C12_Witness ==
  /\ next_card_id = 3
  /\ Len(cards) = 1
  /\ cards[1].id = 2
  /\ cards[1].card_date = card_date
  /\ card_ids = <<2>>
  /\ match_history # <<>>
  /\ booked_matches # <<>>

\* the history rows that carry date d and match number k
EntriesFor(d, k) ==
  {h \in Elems(match_history) : h.card_date = d /\ h.match_number = k}

\* C13: the details of a saved card show, for its match number k, winner "TBD"
\* and no losers exactly when the history has no entry with the card's date and
\* match number k; otherwise they show the winner and losers of a history entry
\* with that date and number.
C13_DetailsFromHistory ==
  [][\A sel \in 1..DetailsCards :
       ShowCardDetails(sel) =>
         LET row == RowsWithId(cards, card_ids[sel])[1]
         IN /\ Len(card_details') = Len(saved[row.id])
            /\ \A k \in 1..Len(card_details') :
                 /\ (card_details'[k].winner = TBD /\ ~card_details'[k].shows_losers)
                      <=> EntriesFor(row.card_date, k) = {}
                 /\ EntriesFor(row.card_date, k) # {} =>
                      \E h \in EntriesFor(row.card_date, k) :
                        /\ card_details'[k].winner = h.winner
                        /\ card_details'[k].losers = h.losers]_vars

\* the details of a card of two matches: the first decided with a loser, the
\* second still to be decided
C13_Witness ==
  /\ Len(card_details) = 2
  /\ card_details[1].winner # TBD
  /\ card_details[1].shows_losers
  /\ card_details[2].winner = TBD
  /\ ~card_details[2].shows_losers

\* C14: adding a wrestler, all fields filled, under the name of a wrestler that
\* is already in the roster fails with the duplicate-name error and leaves the
\* roster and every other table unchanged.
C14_DuplicateNameRejected ==
  [][\A text \in TypedNames : \A g \in Genders : \A b \in Brands \ {"All"} :
       (AddWrestler(text, g, "Face", b)
          /\ \E n \in DOMAIN wrestlers : Chars(n) = Strip(text))
       => /\ dialog' = "Error"
          /\ UNCHANGED <<wrestlers, records, current_holder, won_on, match_history,
                         cards>>]_vars

\* Bob was added as a RAW wrestler and an add under a name of the roster was
\* refused
C14_Witness ==
  /\ dialog = "Error"
  /\ DOMAIN wrestlers = {"Alice", "Bob"}
  /\ wrestlers["Bob"].brand = "RAW"
  /\ "Bob" \in Elems(mg_pool)

\* the number of participant slots shown
Exposed == Cardinality({i \in Slots : mg_cbs[i]})

\* C15: once a participant count n is selected the first format of n is set and
\* exactly n slots are shown, and no operation before the next selection of a
\* count (brand filter, championship with its holders filled in, a participant
\* assigned, a match added to the card) changes the number of slots shown.
C15_SlotsFollowCount ==
  /\ [](Exposed = mg_num)
  /\ [][\A n \in 2..SlotsTotal : SelectFormat(n) => mg_fmt' = opts(n)[1]]_vars

\* C16: the match "Add to Card" appends has one team per number of the active
\* format, each of that size, filled with the slots' names in slot order, mg_num
\* participants in all.
C16_TeamsFollowFormat ==
  [][AddToCard(MaxBooked) =>
       LET m == booked_matches'[Len(booked_matches')]
           nums == ParseFmt(mg_fmt)
       IN /\ Len(m.teams) = Len(nums)
          /\ \A t \in 1..Len(nums) : Len(m.teams[t]) = nums[t]
          /\ Flatten(m.teams) = [i \in 1..mg_num |-> mg_vars[i]]]_vars

\* the names that stand in a team of a booked match
BookedNames ==
  UNION {Elems(Participants(booked_matches[i])) : i \in 1..Len(booked_matches)}

\* C17: after the brand filter is set to b the pool holds exactly the roster's
\* wrestlers of brand b (all of them for "All") that are in no team of a booked
\* match.
C17_BrandPool ==
  [][\A b \in Brands :
       SetBrandFilter(b) =>
         Elems(mg_pool') =
           {w \in DOMAIN wrestlers : b = "All" \/ wrestlers[w].brand = b}
             \ BookedNames]_vars

\* C18: after a championship is selected every name in the pool has the title's
\* gender and, unless the title's brand is "All", the title's brand; the holders
\* filled into the slots are not in the pool.
C18_TitlePool ==
  [][\A c \in Titles :
       SetChampionship(c) =>
         /\ \A p \in Elems(mg_pool') :
              /\ get_wrestler_gender(wrestlers, p) = TitleGender(c)
              /\ TitleBrand(c) # "All" => get_wrestler_brand(wrestlers, p) = TitleBrand(c)
         /\ \A i \in Slots : mg_vars'[i] # "" => mg_vars'[i] \notin Elems(mg_pool')]_vars

\* the shown slots that hold no name
FreeSlots == {i \in Slots : mg_cbs[i] /\ mg_vars[i] = ""}

\* C19: assigning a participant succeeds only when the name is in the pool and
\* there is an empty slot for it: the name then leaves the pool and fills that
\* slot; in every other case the pool and the slots are unchanged.
C19_AssignOrNothing ==
  [][\A name \in Names :
       AddCompetitor(name) =>
         IF name \in Elems(mg_pool) /\ FreeSlots # {}
         THEN /\ Elems(mg_pool') = Elems(mg_pool) \ {name}
              /\ \E i \in FreeSlots : mg_vars' = [mg_vars EXCEPT ![i] = name]
         ELSE UNCHANGED <<mg_pool, mg_vars>>]_vars

\* C20: moving the match at index one place up or down exchanges it with its
\* neighbour on that side and leaves every other position, the contents of every
\* match and the pool unchanged; the first match moved up and the last moved
\* down leave the card as it is.
C20_ReorderSwapsNeighbours ==
  [][\A idx \in Indexes : \A delta \in {-1, 1} :
       MoveMatch(idx, delta) =>
         /\ mg_pool' = mg_pool
         /\ Len(booked_matches') = Len(booked_matches)
         /\ IF idx + delta \in Indexes
            THEN /\ booked_matches'[idx + delta + 1] = booked_matches[idx + 1]
                 /\ booked_matches'[idx + 1] = booked_matches[idx + delta + 1]
                 /\ \A i \in 1..Len(booked_matches) :
                      i \notin {idx + 1, idx + delta + 1} =>
                        booked_matches'[i] = booked_matches[i]
            ELSE booked_matches' = booked_matches]_vars

\* a full card whose decided match stands last with the controls of every frame
\* usable, which only a move, rebuilding the frames, brings about
C20_Witness ==
  /\ Len(booked_matches) = OrderBooked
  /\ resolved = <<0, 0, 1>>
  /\ \A i \in 1..OrderBooked : i \in Usable
  /\ Participants(booked_matches[1]) # <<>>
  /\ Participants(booked_matches[3]) # <<>>

\* C21: once the result of a booked match has been recorded, a move of that
\* match is rejected and leaves the booked list unchanged, in every state
\* reached afterwards (other matches added, moved or removed in between).
C21_ResolvedNotMoved ==
  [][\A idx \in Indexes : \A delta \in {-1, 1} :
       (MoveMatch(idx, delta) /\ resolved[idx + 1] >= 1)
         => UNCHANGED booked_matches]_vars

\* C22: the match history is persisted and append-only: whatever has been
\* recorded stays, unaltered and in place, through every later operation
\* (booking, saving, loading and deleting cards, roster edits, a restart of the
\* program); only "Reset Match History" empties it.
C22_HistoryAppendOnly ==
  [][\/ ResetHistory
     \/ /\ Len(match_history') >= Len(match_history)
        /\ \A i \in 1..Len(match_history) : match_history'[i] = match_history[i]]_vars

\* C23: saving a card under a name adds exactly one row to the cards table,
\* holding the booked list as it is, and records no result: the win/loss
\* records, the title holders, the match history, the booked list and the pool
\* are unchanged, whether or not matches of the list are resolved.
C23_SaveOnlyAddsCard ==
  [][\A text \in TypedCardNames : \A bd \in Brands : \A dt \in Dates :
       (SaveCard(text, bd, dt, SavedCards) /\ Strip(text) # <<>>) =>
         /\ Len(cards') = Len(cards) + 1
         /\ SubSeq(cards', 1, Len(cards)) = cards
         /\ Loads(cards'[Len(cards')].card_data) = booked_matches
         /\ cards'[Len(cards')].name = Strip(text)
         /\ cards'[Len(cards')].card_date = dt
         /\ UNCHANGED <<records, current_holder, won_on, match_history,
                        booked_matches, mg_pool>>]_vars

\* the second saved card holds the booked list of two matches, the first of
\* them resolved before the second was added
C23_Witness ==
  /\ Len(saved) = 2
  /\ Len(cards) = 2
  /\ Len(booked_matches) = 2
  /\ Loads(cards[2].card_data) = booked_matches
  /\ resolved = <<1, 0>>
  /\ \A i \in 1..2 : i \in Usable
  /\ match_history # <<>>

\* C24: a saved card is a snapshot: its row keeps the name, brand, date and
\* match list it was saved with through every operation (matches added, moved,
\* removed, cleared or decided, cards loaded, wrestlers deleted) except the
\* deletion of that very card.
C24_SavedCardReadOnly ==
  /\ [](\A i \in 1..Len(cards) : Loads(cards[i].card_data) = saved[cards[i].id])
  /\ [][\A i \in 1..Len(cards) :
          \/ \E j \in 1..Len(cards') : cards'[j] = cards[i]
          \/ \E sel \in 1..SnapCards :
               DeleteCard(sel) /\ card_ids[sel] = cards[i].id]_vars

\* the first card still holds its match with "Cy" after the second card and the
\* wrestler were deleted, a result was recorded and the card was cleared
C24_Witness ==
  /\ next_card_id = 3
  /\ Len(cards) = 1
  /\ cards[1].id = 1
  /\ Len(saved[1]) = 1
  /\ "\"Cy\"" \in Elems(Flatten(Loads(cards[1].card_data)[1].teams))
  /\ "\"Cy\"" \notin DOMAIN wrestlers
  /\ match_history # <<>>
  /\ booked_matches = <<>>

\* the spelling of name n in lower case without its leading quote characters
LowerUnquoted(n) ==
  LET t == LStripQuotes(Chars(n)) IN [i \in 1..Len(t) |-> Lower(t[i])]

\* C25: in every reachable state the pool is in the order of the key that
\* lower-cases a name and ignores its leading quote characters, and the names in
\* the pool are spelled as in the roster.
C25_PoolSorted ==
  /\ \A i \in 1..(Len(mg_pool) - 1) :
       ~LexLess(LowerUnquoted(mg_pool[i + 1]), LowerUnquoted(mg_pool[i]))
  /\ \A i \in 1..Len(mg_pool) : mg_pool[i] \in Names

\* after a result was recorded and the card emptied, the quoted name stands
\* behind Bob in the pool
C25_Witness ==
  /\ match_history # <<>>
  /\ booked_matches = <<>>
  /\ mg_pool = <<"Bob", "\"Cy\"">>

\* the roster's wrestlers the brand filter and the selected title's gender accept
Accepted ==
  {w \in DOMAIN wrestlers :
     /\ mg_brand = "All" \/ wrestlers[w].brand = mg_brand
     /\ mg_champ \in Titles => wrestlers[w].gender = TitleGender(mg_champ)}

\* C26: no wrestler is lost: in every reachable state each wrestler of the
\* roster that the brand filter and the selected title's gender accept is in the
\* pool, in a participant slot or in a team of a booked match.
C26_NoWrestlerLost ==
  \A w \in Accepted :
    \/ w \in Elems(mg_pool)
    \/ \E i \in Slots : mg_vars[i] = w
    \/ w \in BookedNames

\* C27: the result the details of a saved card show for its match at position k
\* was recorded for that match: a winner other than "TBD" is the label of one of
\* the teams of the card's match at position k, also when matches were moved
\* between the result and the save or when several cards share a date.
C27_ShownWinnerIsATeam ==
  [][\A sel \in 1..ShownCards :
       ShowCardDetails(sel) =>
         LET row == RowsWithId(cards, card_ids[sel])[1]
         IN \A k \in 1..Len(card_details') :
              card_details'[k].winner # TBD =>
                \E t \in 1..Len(saved[row.id][k].teams) :
                  Label(saved[row.id][k].teams[t]) = card_details'[k].winner]_vars

\* C28: in every reachable state every name in the pool is the name of a
\* wrestler of the roster, also after a wrestler was deleted and a booked match
\* with that wrestler was removed, cleared or decided under the brand "All".
C28_PoolInRoster == \A i \in 1..Len(mg_pool) : mg_pool[i] \in DOMAIN wrestlers
====
